---- MODULE Spec2Model ----
(***************************************************************************)
(* A model of paisley's CouchDB client (paisley/client.py): the request    *)
(* engine _getPage with its authenticate-and-retry path, the keepalive     *)
(* LoopingCall, openDoc / map with the read-through cache, and the         *)
(* in-memory cache MemoryCache.                                            *)
(*                                                                         *)
(* Python names that start with an underscore lose it here (_getPage is    *)
(* getPage, _cacheResult is cacheResult, _startLC is startLC).  A Deferred *)
(* is modelled by the position (pc) of the call that owns it and by its    *)
(* outcome once it has fired.                                              *)
(***************************************************************************)
EXTENDS Integers, Sequences, FiniteSets, TLC

(***************************************************************************)
(* Bounds of the model.                                                    *)
(***************************************************************************)
\* facade calls that may be in flight at the same time
MaxCalls == 1
\* facade calls started in one behaviour
MaxOps == 2
\* requests made through _getPage directly in one behaviour
MaxReqs == 1
\* HTTP requests one facade call may issue (the code has no cap)
MaxAttempts == 3
\* keepalive GETs in flight at the same time
MaxKA == 2
\* operations applied to a MemoryCache in one behaviour of SpecCache
MaxCacheOps == 4
\* the bytes one ResponseReceiver is given, in all chunks together
MaxBytes == 3
\* the bytes of one chunk
MaxChunk == 2
\* the calls of the facade in the specification of saveDoc and deleteDoc
MaxSaveOps == 3

(***************************************************************************)
(* Values.                                                                 *)
(***************************************************************************)
\* the value None
None == "None"

\* response bodies the server may send
B_DOC1 == "{\"_id\":\"b/c\",\"_rev\":\"1\"}"
B_DOC2 == "{\"_id\":\"b/c\",\"_rev\":\"2\"}"
B_UNAUTH == "{\"error\":\"unauthorized\"}"
B_UNAUTH2 == "{\"error\":\"unauthorized\",\"reason\":\"x\"}"
B_NOTFOUND == "{\"error\":\"not_found\"}"
B_LIST == "[]"
B_HTML == "<html>"
B_EMPTY == ""
Bodies == {B_DOC1, B_DOC2, B_UNAUTH, B_UNAUTH2, B_NOTFOUND, B_LIST, B_HTML, B_EMPTY}

\* the bodies the server answers a POST of /_session with
B_SESS1 == "{\"ok\":true,\"name\":\"u\",\"roles\":[\"r\"]}"
B_SESS2 == "{\"ok\":true,\"name\":\"u\",\"roles\":[]}"

\* the body the server answers a saved or deleted document with
B_SAVED == "{\"ok\":true,\"id\":\"b/c\",\"rev\":\"2\"}"

NoFields == [k \in {} |-> ""]

\* json.loads restricted to Bodies: a dict, a list, or ValueError raised
json_loads(s) ==
    CASE s = B_DOC1 -> [t |-> "dict", d |-> ("_id" :> "b/c" @@ "_rev" :> "1")]
      [] s = B_DOC2 -> [t |-> "dict", d |-> ("_id" :> "b/c" @@ "_rev" :> "2")]
      [] s = B_UNAUTH -> [t |-> "dict", d |-> ("error" :> "unauthorized")]
      [] s = B_UNAUTH2 -> [t |-> "dict", d |-> ("error" :> "unauthorized" @@ "reason" :> "x")]
      [] s = B_NOTFOUND -> [t |-> "dict", d |-> ("error" :> "not_found")]
      [] s = B_LIST -> [t |-> "list", d |-> NoFields]
      [] s = B_SESS1 -> [t |-> "dict",
                         d |-> ("ok" :> "true" @@ "name" :> "u" @@ "roles" :> <<"r">>)]
      [] s = B_SESS2 -> [t |-> "dict",
                         d |-> ("ok" :> "true" @@ "name" :> "u" @@ "roles" :> <<>>)]
      [] s = B_SAVED -> [t |-> "dict",
                         d |-> ("ok" :> "true" @@ "id" :> "b/c" @@ "rev" :> "2")]
      [] OTHER -> [t |-> "ValueError", d |-> NoFields]

\* json.dumps of a document
json_dumps(value) == CHOOSE text \in {B_DOC1, B_DOC2} : json_loads(text) = value

\* CouchDB.parseResult: the parsed value, or the exception json.loads raised
parseResult(result) == json_loads(result)

NoValue == [t |-> None, d |-> NoFields]

(***************************************************************************)
(* MemoryCache.  A cache state is a record of the two dicts and the three  *)
(* counters; a dict is a function whose domain is its set of keys.  Every  *)
(* operation returns the new cache state m, the exception it raised        *)
(* (None when it returned) and its result ret.                             *)
(***************************************************************************)
Keys == {"a", "b/c"}
\* a key that is not of type str, and the empty str
NotStr == "<not str>"
AnyKeys == Keys \cup {NotStr, ""}

type_is_str(key) == key # NotStr

EmptyDict == [k \in {} |-> NoValue]

dict_set(d, key, value) == [k \in DOMAIN d \cup {key} |-> IF k = key THEN value ELSE d[k]]

dict_del(d, key) == [k \in DOMAIN d \ {key} |-> d[k]]

\* MemoryCache.__init__: both arguments are ignored
MemoryCache_init(docs, objects) ==
    [docCache |-> EmptyDict, objCache |-> EmptyDict,
     lookups |-> 0, hits |-> 0, cached |-> 0,
     docs |-> TRUE, objects |-> TRUE]

Ret(m, raised, ret) == [m |-> m, raised |-> raised, ret |-> ret]

\* a mapped that overwrites the object already there, as store does
MemoryCache_mapped_overwrite(m, key, obj) ==
    IF ~type_is_str(key) THEN Ret(m, "AssertionError", NoValue)
    ELSE IF ~m.objects THEN Ret(m, None, NoValue)
    ELSE Ret([m EXCEPT !.objCache = dict_set(@, key, obj), !.cached = @ + 1],
             None, NoValue)

MemoryCache_mapped(m, key, obj) ==
    IF ~type_is_str(key) THEN Ret(m, "AssertionError", NoValue)
    ELSE IF ~m.objects THEN Ret(m, None, NoValue)
    ELSE IF key \notin DOMAIN m.objCache
         THEN Ret([m EXCEPT !.objCache = dict_set(@, key, obj), !.cached = @ + 1],
                  None, NoValue)
         ELSE Ret(m, None, NoValue)

\* a store that keeps the value already there, as mapped does
MemoryCache_store_first(m, key, value) ==
    IF ~type_is_str(key) THEN Ret(m, "AssertionError", NoValue)
    ELSE IF key \in DOMAIN m.docCache THEN Ret(m, None, NoValue)
    ELSE Ret([m EXCEPT !.docCache = dict_set(@, key, value), !.cached = @ + 1],
             None, NoValue)

\* a store without the assertion on the type of its key
MemoryCache_store_noassert(m, key, value) ==
    Ret([m EXCEPT !.docCache = dict_set(@, key, value), !.cached = @ + 1],
        None, NoValue)

MemoryCache_store(m, key, value) ==
    IF ~type_is_str(key) THEN Ret(m, "AssertionError", NoValue)
    ELSE Ret([m EXCEPT !.docCache = dict_set(@, key, value), !.cached = @ + 1],
             None, NoValue)

MemoryCache_get(m, key) ==
    IF key \notin DOMAIN m.docCache
    THEN Ret([m EXCEPT !.lookups = @ + 1], "KeyError", NoValue)
    ELSE Ret([m EXCEPT !.lookups = @ + 1, !.hits = @ + 1], None, m.docCache[key])

MemoryCache_getObject(m, key) ==
    IF key \notin DOMAIN m.objCache
    THEN Ret([m EXCEPT !.lookups = @ + 1], "KeyError", NoValue)
    ELSE Ret([m EXCEPT !.lookups = @ + 1, !.hits = @ + 1], None, m.objCache[key])

\* a delete that counts down whether or not anything was deleted
MemoryCache_delete_counts(m, key) ==
    Ret([m EXCEPT !.docCache = dict_del(@, key),
                  !.objCache = dict_del(@, key),
                  !.cached = @ - 1],
        None, [t |-> "True", d |-> NoFields])

\* the result is defer.succeed(True) whether or not anything was deleted
MemoryCache_delete(m, key) ==
    LET deleted == key \in DOMAIN m.docCache \/ key \in DOMAIN m.objCache
    IN  Ret([m EXCEPT !.docCache = dict_del(@, key),
                      !.objCache = dict_del(@, key),
                      !.cached = IF deleted THEN @ - 1 ELSE @],
            None, [t |-> "True", d |-> NoFields])

(***************************************************************************)
(* The request engine: CouchDB._getPage.                                   *)
(***************************************************************************)
\* the status codes the server answers with where responses are classified,
\* and the (code, body) pairs it answers with elsewhere
Codes == {100, 199, 200, 201, 299, 300, 302, 399, 400, 401, 402, 403, 404, 405,
          409, 500, 599}
Responses ==
    {<<200, B_DOC1>>, <<302, B_HTML>>, <<401, B_EMPTY>>, <<404, B_NOTFOUND>>}

\* the result of cb_process_resp: what it returns or raises
Page(kind, code, body) == [kind |-> kind, code |-> code, body |-> body]

\* a probe that takes every 404 for an unauthorized one
probe_error_any404(code, body) == IF code = 404 THEN "unauthorized" ELSE None

\* the error probed in a 404 body: b['error'], None when the probe raises
probe_error(code, body) ==
    IF code = 404
    THEN LET b == json_loads(body)
         IN  IF b.t = "dict" /\ "error" \in DOMAIN b.d THEN b.d["error"] ELSE None
    ELSE None

\* a classification that does not look at self._authenticator
cb_process_resp_noauth(code, body, auth) ==
    IF code > 299 /\ code < 400 THEN Page("PageRedirect", code, body)
    ELSE IF code \in {401, 404} /\ (code = 401 \/ probe_error(code, body) = "unauthorized")
         THEN Page("authenticate", code, body)
    ELSE IF code > 399 THEN Page("Error", code, body)
    ELSE Page("body", code, body)

\* a classification whose error test is code > 400
cb_process_resp_gt400(code, body, auth) ==
    IF code > 299 /\ code < 400 THEN Page("PageRedirect", code, body)
    ELSE IF /\ code \in {401, 404}
            /\ (code = 401 \/ probe_error(code, body) = "unauthorized")
            /\ auth
         THEN Page("authenticate", code, body)
    ELSE IF code > 400 THEN Page("Error", code, body)
    ELSE Page("body", code, body)

cb_process_resp(code, body, auth) ==
    IF code > 299 /\ code < 400 THEN Page("PageRedirect", code, body)
    ELSE IF /\ code \in {401, 404}
            /\ (code = 401 \/ probe_error(code, body) = "unauthorized")
            /\ auth
         THEN Page("authenticate", code, body)
    ELSE IF code > 399 THEN Page("Error", code, body)
    ELSE Page("body", code, body)

\* header dicts: functions from header names to values
NoHeaders == [k \in {} |-> ""]
FormHeaders == ("Content-Type" :> "application/x-www-form-urlencodeddata" @@ "Accept" :> "*/*")

\* d[k] = v for every k of e, as dict.update does
dict_update(d, e) == [k \in DOMAIN d \cup DOMAIN e |-> IF k \in DOMAIN e THEN e[k] ELSE d[k]]

\* b64encode on the credentials the model uses
b64encode(s) == IF s = "u:p" THEN "dTpw" ELSE "Og=="

\* headers built without the User-Agent
build_headers_noagent(headers, isJson, user, password) ==
    LET h0 == IF DOMAIN headers = {} THEN NoHeaders ELSE headers
        h1 == IF isJson
              THEN dict_update(h0, ("Accept" :> "application/json" @@
                                    "Content-Type" :> "application/json"))
              ELSE h0
    IN  IF user # None /\ user # ""
        THEN dict_update(h1, ("Authorization" :> ("Basic " \o b64encode(user \o ":" \o password))))
        ELSE h1

\* the headers _getPage sends
build_headers(headers, isJson, user, password) ==
    LET h0 == IF DOMAIN headers = {} THEN NoHeaders ELSE headers
        h1 == IF isJson
              THEN dict_update(h0, ("Accept" :> "application/json" @@
                                    "Content-Type" :> "application/json"))
              ELSE h0
        h2 == dict_update(h1, ("User-Agent" :> "paisley"))
    IN  IF user # None /\ user # ""
        THEN dict_update(h2, ("Authorization" :> ("Basic " \o b64encode(user \o ":" \o password))))
        ELSE h2

url_template(uri) == "http://host:5984" \o uri

\* the request handed to the agent: client.request(method, url, Headers(headers), body)
http_request(uri, method, postdata, headers, isJson, user, password) ==
    [method |-> method, url |-> url_template(uri),
     headers |-> build_headers(headers, isJson, user, password),
     body |-> IF postdata # None /\ postdata # "" THEN postdata ELSE None]

(***************************************************************************)
(* The facade: openDoc, _cacheResult, map, mapped.                         *)
(***************************************************************************)
DbName == "db"
\* the document the facade calls of the model open
DocIds == {"b/c"}
Revisions == {None, "1"}
Attachments == {"", "att"}

\* quote(name, safe='') on the names the model uses
namequote(name) == IF name = "b/c" THEN "b%2Fc" ELSE name

\* quote(name) with the default safe='/'
quote(name) == name

\* quote_plus(value), as urlencode applies it, on the values the model uses
quote_plus(value) == IF value = "b/c" THEN "b%2Fc" ELSE value

startswith_underscore(name) == name \in {"_design/v"}

\* what the synchronous part of openDoc does: a cache hit returned at once, or
\* a GET of uri, with parseResult and _cacheResult chained unless it is the
\* attachment's GET
openDoc(m, hasCache, dbName, docId, revision, full, attachment) ==
    LET docIdUri == IF startswith_underscore(docId) THEN docId ELSE namequote(docId)
        uri0 == "/" \o namequote(dbName) \o "/" \o docIdUri
        g == MemoryCache_get(m, docId)
        m1 == IF hasCache THEN g.m ELSE m
    IN  IF revision = None /\ ~full /\ attachment # ""
        THEN [kind |-> "get", m |-> m, uri |-> uri0 \o "/" \o quote(attachment),
              isJson |-> FALSE, chain |-> "none", ret |-> NoValue]
        ELSE LET uri == IF revision # None THEN uri0 \o "?rev=" \o quote_plus(revision)
                        ELSE IF full THEN uri0 \o "?full=true"
                        ELSE uri0
             IN  IF hasCache /\ g.raised = None
                 THEN [kind |-> "hit", m |-> g.m, uri |-> uri,
                       isJson |-> TRUE, chain |-> "doc", ret |-> g.ret]
                 ELSE [kind |-> "get", m |-> m1, uri |-> uri,
                       isJson |-> TRUE, chain |-> "doc", ret |-> NoValue]

\* keyword arguments: functions from names to values
NoKw == [k \in {} |-> 0]

\* "&".join(pairs)
RECURSIVE join_amp(_)
join_amp(pairs) ==
    IF pairs = <<>> THEN ""
    ELSE IF Len(pairs) = 1 THEN pairs[1]
    ELSE pairs[1] \o "&" \o join_amp(Tail(pairs))

\* quote_plus(json.dumps(key)) on the keys the model uses
dumps_quoted(key) == "%22" \o key \o "%22"

\* a listDoc that does not look at what is left of its keyword arguments
listDoc_any_kw(dbName, reverse, startkey, endkey, include_docs, limit, obsolete) ==
    LET limit1 == IF "count" \in DOMAIN obsolete THEN obsolete["count"] ELSE limit
        args == (IF reverse THEN <<"reverse=true">> ELSE <<>>)
                \o (IF startkey # None THEN <<"startkey=" \o dumps_quoted(startkey)>> ELSE <<>>)
                \o (IF endkey # None THEN <<"endkey=" \o dumps_quoted(endkey)>> ELSE <<>>)
                \o (IF include_docs THEN <<"include_docs=True">> ELSE <<>>)
                \o (IF limit1 >= 0 THEN <<"limit=" \o ToString(limit1)>> ELSE <<>>)
        uri == "/" \o namequote(dbName) \o "/_all_docs"
    IN  [raised |-> None,
         uri |-> IF args # <<>> THEN uri \o "?" \o join_amp(args) ELSE uri]

\* the synchronous part of listDoc: AttributeError raised, or the uri of its
\* GET, to which parseResult is chained
listDoc(dbName, reverse, startkey, endkey, include_docs, limit, obsolete) ==
    LET limit1 == IF "count" \in DOMAIN obsolete THEN obsolete["count"] ELSE limit
        obsolete1 == [k \in DOMAIN obsolete \ {"count"} |-> obsolete[k]]
        args == (IF reverse THEN <<"reverse=true">> ELSE <<>>)
                \o (IF startkey # None THEN <<"startkey=" \o dumps_quoted(startkey)>> ELSE <<>>)
                \o (IF endkey # None THEN <<"endkey=" \o dumps_quoted(endkey)>> ELSE <<>>)
                \o (IF include_docs THEN <<"include_docs=True">> ELSE <<>>)
                \o (IF limit1 >= 0 THEN <<"limit=" \o ToString(limit1)>> ELSE <<>>)
        uri == "/" \o namequote(dbName) \o "/_all_docs"
    IN  IF DOMAIN obsolete1 # {}
        THEN [raised |-> "AttributeError", uri |-> ""]
        ELSE [raised |-> None,
              uri |-> IF args # <<>> THEN uri \o "?" \o join_amp(args) ELSE uri]

\* an outcome of a call's Deferred: "pending" until it fires, "ok" with the
\* body text or the value it fired with, or the exception it failed with
Outcome(kind, code, body, value) == [kind |-> kind, code |-> code, body |-> body, value |-> value]
Pending == Outcome("pending", 0, "", NoValue)

Chained(m, oid, outcome) == [m |-> m, oid |-> oid, outcome |-> outcome]

\* a _cacheResult that forgets to store
cacheResult_nostore(m, cached, value, docId) == Ret(m, None, NoValue)

\* CouchDB._cacheResult
cacheResult(m, hasCache, value, docId) ==
    IF hasCache THEN MemoryCache_store(m, docId, value) ELSE Ret(m, None, NoValue)

\* CouchDB.mapped
mapped(m, hasCache, key, obj) ==
    IF hasCache THEN MemoryCache_mapped(m, key, obj) ELSE Ret(m, None, NoValue)

\* objectFactory(*args, **kwargs) followed by obj.fromDict(doc): a new object
Hydrate(oid, doc) == [t |-> "object", d |-> doc.d, oid |-> oid]

\* the callback cb of map
map_cb(m, hasCache, docId, doc, oid) ==
    LET obj == Hydrate(oid, doc)
        r == mapped(m, hasCache, docId, obj)
    IN  IF r.raised # None
        THEN Chained(r.m, oid + 1, Outcome(r.raised, 0, "", NoValue))
        ELSE Chained(r.m, oid + 1, Outcome("ok", 0, "", obj))

\* callbacks that store the body before it is parsed
doc_cb_both(m, cached, docId, body, oid) ==
    LET value == parseResult(body)
        r == cacheResult(m, cached, [t |-> "str", d |-> ("text" :> body)], docId)
    IN  IF value.t = "ValueError"
        THEN Chained(r.m, oid, Outcome("ValueError", 0, body, NoValue))
        ELSE Chained(r.m, oid, Outcome("ok", 0, body, value))
\* the callbacks openDoc chains on the GET: parseResult, then _cacheResult
doc_cb(m, hasCache, docId, body, oid) ==
    LET value == parseResult(body)
        r == cacheResult(m, hasCache, value, docId)
    IN  IF value.t = "ValueError"
        THEN Chained(m, oid, Outcome("ValueError", 0, body, NoValue))
        ELSE IF r.raised # None
        THEN Chained(r.m, oid, Outcome(r.raised, 0, body, NoValue))
        ELSE Chained(r.m, oid, Outcome("ok", 0, body, value))

\* the bodies saveDoc is given: a str, or a document to be serialised
StrBody(text) == [t |-> "str", d |-> ("text" :> text)]
SaveBodies == {StrBody(B_DOC2), json_loads(B_DOC2)}

\* a saveDoc that drops the cached document it replaces
saveDoc_invalidates(m, cached, dbName, body, docId) ==
    LET text == IF body.t = "str" THEN body.d["text"] ELSE json_dumps(body)
    IN  [m |-> IF cached /\ docId # None THEN MemoryCache_delete(m, docId).m ELSE m,
         method |-> IF docId # None THEN "PUT" ELSE "POST",
         uri |-> "/" \o namequote(dbName) \o "/" \o
                 (IF docId # None THEN namequote(docId) ELSE ""),
         postdata |-> text, chain |-> "parse"]
\* saveDoc(dbName, body, docId=None): the request, and the cache as it is
saveDoc(m, cached, dbName, body, docId) ==
    LET text == IF body.t = "str" THEN body.d["text"] ELSE json_dumps(body)
    IN  IF docId # None
        THEN [m |-> m, method |-> "PUT",
              uri |-> "/" \o namequote(dbName) \o "/" \o namequote(docId),
              postdata |-> text, chain |-> "parse"]
        ELSE [m |-> m, method |-> "POST",
              uri |-> "/" \o namequote(dbName) \o "/",
              postdata |-> text, chain |-> "parse"]

\* urlencode({'rev': revision})
urlencode_rev(revision) == "rev=" \o quote_plus(revision)

\* deleteDoc(dbName, docId, revision): the request, and the cache as it is
deleteDoc(m, cached, dbName, docId, revision) ==
    [m |-> m, method |-> "DELETE",
     uri |-> "/" \o namequote(dbName) \o "/" \o namequote(docId) \o "?" \o
             urlencode_rev(revision),
     postdata |-> None, chain |-> "parse"]

\* the callback parseResult chained on a request
parse_cb(body) ==
    LET value == parseResult(body)
    IN  IF value.t = "ValueError"
        THEN Outcome("ValueError", 0, body, NoValue)
        ELSE Outcome("ok", 0, body, value)

\* a callback that is run on failure too
getSessionCb_both(sess, chain, outcome) ==
    IF chain = "session" THEN outcome.value ELSE sess

\* getSessionCb, the callback getSession chains after parseResult: the
\* session after the chain of a call has run
getSessionCb(sess, chain, outcome) ==
    IF chain = "session" /\ outcome.kind = "ok" THEN outcome.value ELSE sess

\* getSessionRoles: self._session['roles'] when self._session is true
getSessionRoles(sess) ==
    IF sess.d # NoFields
    THEN IF "roles" \in DOMAIN sess.d
         THEN [raised |-> None, ret |-> [t |-> "list", d |-> sess.d["roles"]]]
         ELSE [raised |-> "KeyError", ret |-> NoValue]
    ELSE [raised |-> None, ret |-> [t |-> "list", d |-> <<>>]]

\* the Deferred of _getPage fires with page; the callbacks chained on it run:
\* those of openDoc with the docId openDoc was given (openId), then the one of
\* map with the docId map was given
RunChain(chain, docId, openId, page, m, hasCache, oid) ==
    IF page.kind # "body"
    THEN Chained(m, oid, Outcome(page.kind, page.code, page.body, NoValue))
    ELSE IF chain = "none"
    THEN Chained(m, oid, Outcome("ok", page.code, page.body, NoValue))
    ELSE IF chain \in {"parse", "session"}
    THEN Chained(m, oid, parse_cb(page.body))
    ELSE LET dr == doc_cb(m, hasCache, openId, page.body, oid)
         IN  IF chain = "doc" \/ dr.outcome.kind # "ok"
             THEN dr
             ELSE map_cb(dr.m, hasCache, docId, dr.outcome.value, dr.oid)

(***************************************************************************)
(* State.                                                                  *)
(***************************************************************************)
VARIABLES
    authenticator,  \* self._authenticator is set
    username,       \* self.username
    hasCache,       \* self._cache is set
    cache,          \* the MemoryCache behind self._cache
    calls,          \* the facade calls: their closures and their Deferreds
    nops,           \* operations started so far
    nextObj,        \* identity of the next object an objectFactory builds
    authLC,         \* self._authLC: None or a LoopingCall
    running,        \* number of LoopingCalls that are running
    kaHttp,         \* keepalive GETs waiting for their response
    kaAuth,         \* keepalive GETs waiting for authenticate
    last,           \* the last operation applied directly (MemoryCache, getSessionRoles)
    objectsArg,     \* the objects argument the MemoryCache was constructed with
    session,        \* self._session
    clock,          \* seconds since the running LoopingCall last called loop()
    kaLast,         \* the last keepalive GET issued, whether the last one to end
                    \* has failed, and whether the timer has fired since it did
    boundDb,        \* the dbName the client was constructed with (bindToDB), or None
    receiver        \* a ResponseReceiver and the Deferred it was given

vars == <<authenticator, username, hasCache, cache, calls, nops, nextObj,
          authLC, running, kaHttp, kaAuth, last, objectsArg, session, clock, kaLast,
          boundDb, receiver>>

config == <<authenticator, username, hasCache, objectsArg, boundDb>>
keepalive == <<authLC, running, kaHttp, kaAuth, clock, kaLast>>

\* self._session = {}
NoSession == [t |-> "dict", d |-> NoFields]

\* no request
NoReq == [method |-> None, url |-> None, headers |-> NoHeaders, body |-> None]

NoKa == [req |-> NoReq, failed |-> FALSE, tick |-> FALSE]

Password == "p"
CallIds == 1..MaxCalls
\* the slots of calls: one more than the calls most specifications make
Slots == 1..(MaxCalls + 1)

\* the arguments of a listDoc call
ListArgs(reverse, startkey, limit, obsolete) ==
    [reverse |-> reverse, startkey |-> startkey, limit |-> limit, obsolete |-> obsolete]
NoArgs == ListArgs(FALSE, None, -1, NoKw)

\* no ResponseReceiver has been constructed
NoReceiver ==
    [made |-> FALSE, decode_utf8 |-> FALSE, recv_chunks |-> <<>>, buffer |-> <<>>,
     deferred |-> "pending", result |-> <<>>, fired |-> 0, raised |-> None,
     received |-> <<>>, lost |-> None]

IdleCall ==
    [op |-> "none", pc |-> "idle", uri |-> "", method |-> "", postdata |-> None,
     headers |-> NoHeaders, isJson |-> TRUE, chain |-> "none", docId |-> "",
     revision |-> None, full |-> FALSE, attachment |-> "", hit |-> FALSE,
     sent |-> <<>>, resps |-> <<>>, nauth |-> 0, log |-> <<>>,
     outcome |-> Pending, args |-> NoArgs, given |-> NoHeaders, openId |-> ""]

NoOp == [op |-> "none", key |-> "", value |-> NoValue, raised |-> None, ret |-> NoValue]

\* the state after CouchDB.__init__ (and after the authenticator, if any, is
\* set): no call made, no session, no LoopingCall
Constructed(auths, users, caches, objs, dbs) ==
    /\ authenticator \in auths
    /\ username \in users
    /\ hasCache \in caches
    /\ objectsArg \in objs
    /\ cache = MemoryCache_init(TRUE, objectsArg)
    /\ boundDb \in dbs
    /\ receiver = NoReceiver
    /\ calls = [c \in Slots |-> IdleCall]
    /\ nops = 0
    /\ nextObj = 1
    /\ authLC = None
    /\ running = 0
    /\ kaHttp = 0
    /\ kaAuth = 0
    /\ last = NoOp
    /\ session = NoSession
    /\ clock = 0
    /\ kaLast = NoKa

\* a slot is free when no Deferred of it is outstanding
Free(c) == calls[c].pc \in {"idle", "done"}

(***************************************************************************)
(* _getPage and _startLC on the state.                                     *)
(***************************************************************************)
\* the synchronous part of _getPage: the request is built and issued; the
\* closure keeps the arguments, headers being the dict that was filled in
getPage(call, uri, method, postdata, headers, isJson) ==
    LET req == http_request(uri, method, postdata, headers, isJson, username, Password)
    IN  [call EXCEPT !.pc = "http", !.uri = uri, !.method = method,
                     !.postdata = postdata, !.headers = req.headers,
                     !.isJson = isJson, !.sent = Append(@, req),
                     !.log = Append(@, "request")]

\* a re-issue that passes only the uri: self._getPage(uri)
retry_defaults(call) == getPage(call, call.uri, "GET", None, NoHeaders, TRUE)

\* the re-issue after authenticate: self._getPage(uri, method, postdata,
\* headers, isJson) with the variables of the closure
retry(call) ==
    getPage(call, call.uri, call.method, call.postdata, call.headers, call.isJson)

\* CouchDB.get
CouchDB_get(call, uri, isJson) == getPage(call, uri, "GET", None, NoHeaders, isJson)

\* _startLC: the running LoopingCall is stopped, a new one is started, and
\* start() calls loop() at once, which issues a keepalive GET
\* a window of half the 300 seconds
AUTH_WINDOW_halved == 300 \div 2

AUTH_WINDOW == 300

\* the request of self.get('') in loop()
loop_get(user) == http_request("", "GET", None, NoHeaders, TRUE, user, Password)

\* a _startLC that leaves the previous LoopingCall running
startLC_nostop(lc, user) ==
    [authLC |-> "LoopingCall",
     running |-> lc.running + 1,
     kaHttp |-> lc.kaHttp + 1,
     clock |-> 0,
     kaLast |-> [lc.kaLast EXCEPT !.req = loop_get(user)]]

startLC(lc, user) ==
    [authLC |-> "LoopingCall",
     running |-> (IF lc.authLC # None THEN lc.running - 1 ELSE lc.running) + 1,
     kaHttp |-> lc.kaHttp + 1,
     clock |-> 0,
     kaLast |-> [lc.kaLast EXCEPT !.req = loop_get(user)]]

LC == [authLC |-> authLC, running |-> running, kaHttp |-> kaHttp, clock |-> clock,
       kaLast |-> kaLast]

KaRoom(n) == kaHttp + kaAuth + n <= MaxKA

(***************************************************************************)
(* Facade calls.                                                           *)
(***************************************************************************)
Shape(method, uri, postdata, headers, isJson) ==
    [method |-> method, uri |-> uri, postdata |-> postdata, headers |-> headers,
     isJson |-> isJson]

\* the _getPage calls of get and of getSession
ReqShapes ==
    {Shape("GET", "/db/b%2Fc", None, NoHeaders, TRUE),
     Shape("POST", "/_session", "name=u&password=p", FormHeaders, FALSE)}

\* a request made through _getPage
Request(c, sh) ==
    /\ Free(c)
    /\ nops < MaxReqs
    /\ calls' = [calls EXCEPT ![c] =
           getPage([IdleCall EXCEPT !.op = "request", !.given = sh.headers],
                   sh.uri, sh.method, sh.postdata, sh.headers, sh.isJson)]
    /\ nops' = nops + 1
    /\ UNCHANGED <<config, receiver, session, cache, nextObj, keepalive, last>>

\* openDoc(dbName, docId, revision, full, attachment)
OpenDocWithin(c, docId, revision, full, attachment, max) ==
    LET od == openDoc(cache, hasCache, DbName, docId, revision, full, attachment)
        call == [IdleCall EXCEPT !.op = "openDoc", !.docId = docId, !.openId = docId,
                                 !.revision = revision, !.full = full,
                                 !.attachment = attachment, !.chain = od.chain]
    IN  /\ Free(c)
        /\ nops < max
        /\ calls' = [calls EXCEPT ![c] =
               IF od.kind = "hit"
               THEN [call EXCEPT !.pc = "done", !.hit = TRUE, !.log = <<"fired">>,
                                 !.outcome = Outcome("ok", 0, "", od.ret)]
               ELSE CouchDB_get(call, od.uri, od.isJson)]
        /\ cache' = od.m
        /\ nops' = nops + 1
        /\ UNCHANGED <<config, receiver, session, nextObj, keepalive, last>>

OpenDoc(c, docId, revision, full, attachment) ==
    OpenDocWithin(c, docId, revision, full, attachment, MaxOps)

\* saveDoc(dbName, body, docId)
SaveDoc(c, body, docId) ==
    LET sd == saveDoc(cache, hasCache, DbName, body, docId)
        call == [IdleCall EXCEPT !.op = "saveDoc", !.docId = docId, !.chain = sd.chain]
    IN  /\ Free(c)
        /\ nops < MaxSaveOps
        /\ calls' = [calls EXCEPT ![c] =
               getPage(call, sd.uri, sd.method, sd.postdata, NoHeaders, TRUE)]
        /\ cache' = sd.m
        /\ nops' = nops + 1
        /\ UNCHANGED <<config, receiver, session, nextObj, keepalive, last>>

\* deleteDoc(dbName, docId, revision)
DeleteDoc(c, docId, revision) ==
    LET dd == deleteDoc(cache, hasCache, DbName, docId, revision)
        call == [IdleCall EXCEPT !.op = "deleteDoc", !.docId = docId,
                                 !.revision = revision, !.chain = dd.chain]
    IN  /\ Free(c)
        /\ nops < MaxSaveOps
        /\ calls' = [calls EXCEPT ![c] =
               getPage(call, dd.uri, dd.method, dd.postdata, NoHeaders, TRUE)]
        /\ cache' = dd.m
        /\ nops' = nops + 1
        /\ UNCHANGED <<config, receiver, session, nextObj, keepalive, last>>

\* listDoc(dbName, reverse=, startkey=, limit=, **obsolete)
ListDoc(c, reverse, startkey, limit, obsolete) ==
    LET ld == listDoc(DbName, reverse, startkey, None, FALSE, limit, obsolete)
        call == [IdleCall EXCEPT !.op = "listDoc", !.chain = "parse",
                                 !.args = ListArgs(reverse, startkey, limit, obsolete)]
    IN  /\ Free(c)
        /\ nops < MaxOps
        /\ calls' = [calls EXCEPT ![c] =
               IF ld.raised # None
               THEN [call EXCEPT !.pc = "done", !.log = <<"raised">>,
                                 !.outcome = Outcome(ld.raised, 0, "", NoValue)]
               ELSE CouchDB_get(call, ld.uri, TRUE)]
        /\ nops' = nops + 1
        /\ UNCHANGED <<config, receiver, session, cache, nextObj, keepalive, last>>

\* getSession(): without a username, self.username.encode raises
GetSession(c) ==
    LET call == [IdleCall EXCEPT !.op = "getSession", !.chain = "session",
                                 !.given = FormHeaders]
        postdata == "name=" \o username \o "&password=" \o Password
    IN  /\ Free(c)
        /\ nops < MaxOps
        /\ calls' = [calls EXCEPT ![c] =
               IF username = None
               THEN [call EXCEPT !.pc = "done", !.log = <<"raised">>,
                                 !.outcome = Outcome("AttributeError", 0, "", NoValue)]
               ELSE getPage(call, "/_session", "POST", postdata, FormHeaders, FALSE)]
        /\ nops' = nops + 1
        /\ UNCHANGED <<config, receiver, session, cache, nextObj, keepalive, last>>

\* getSessionRoles()
GetSessionRoles ==
    LET r == getSessionRoles(session)
    IN  /\ last' = [op |-> "getSessionRoles", key |-> "", value |-> NoValue,
                    raised |-> r.raised, ret |-> r.ret]
        /\ UNCHANGED <<config, receiver, session, cache, calls, nops, nextObj, keepalive>>

\* self._cache.getObject(docId) in map: without a cache, self._cache is None
\* and the attribute lookup raises
cache_getObject(m, cached, docId) ==
    IF cached THEN MemoryCache_getObject(m, docId) ELSE Ret(m, "AttributeError", NoValue)

\* an except clause without AttributeError
MapCaught_KeyError == {"KeyError"}

\* the exceptions map catches around getObject
MapCaught == {"KeyError", "AttributeError"}

\* partial(method, dbName)(*args), the method bindToDB puts in the place of
\* a method: dbName goes before the arguments of the call
partial(bound, args) == IF bound # None THEN <<bound>> \o args ELSE args

\* openDoc applied to positional arguments, the others at their defaults
apply_openDoc(m, cached, args) ==
    openDoc(m, cached, args[1], args[2],
            IF Len(args) >= 3 THEN args[3] ELSE None, FALSE, "")

\* d = self.openDoc(dbName, docId) in map: self.openDoc is the partial of a
\* client that is bound to a database
map_openDoc(m, cached, bound, dbName, docId) ==
    LET args == partial(bound, <<dbName, docId>>)
    IN  [od |-> apply_openDoc(m, cached, args), openId |-> args[2]]

\* map(dbName, docId, objectFactory): the cached object, or openDoc and cb
Map(c, docId) ==
    LET g == cache_getObject(cache, hasCache, docId)
        mo == map_openDoc(g.m, hasCache, boundDb, DbName, docId)
        od == mo.od
        cb == map_cb(od.m, hasCache, docId, od.ret, nextObj)
        call == [IdleCall EXCEPT !.op = "map", !.docId = docId, !.chain = "map",
                                 !.openId = mo.openId]
    IN  /\ Free(c)
        /\ nops < MaxOps
        /\ nops' = nops + 1
        /\ IF g.raised = None
           THEN /\ calls' = [calls EXCEPT ![c] =
                       [call EXCEPT !.pc = "done", !.hit = TRUE, !.log = <<"fired">>,
                                    !.outcome = Outcome("ok", 0, "", g.ret)]]
                /\ cache' = g.m
                /\ UNCHANGED nextObj
           ELSE IF g.raised \notin MapCaught
           THEN /\ calls' = [calls EXCEPT ![c] =
                       [call EXCEPT !.pc = "done", !.log = <<"raised">>,
                                    !.outcome = Outcome(g.raised, 0, "", NoValue)]]
                /\ cache' = g.m
                /\ UNCHANGED nextObj
           ELSE IF od.kind = "hit"
           THEN /\ calls' = [calls EXCEPT ![c] =
                       [call EXCEPT !.pc = "done", !.log = <<"fired">>,
                                    !.outcome = cb.outcome]]
                /\ cache' = cb.m
                /\ nextObj' = cb.oid
           ELSE /\ calls' = [calls EXCEPT ![c] = CouchDB_get(call, od.uri, od.isJson)]
                /\ cache' = od.m
                /\ UNCHANGED nextObj
        /\ UNCHANGED <<config, receiver, session, keepalive, last>>

(***************************************************************************)
(* Responses, and the Authenticator's Deferred.                            *)
(***************************************************************************)
\* the response of call c's request arrives: cb_recv_resp, cb_process_resp,
\* then either authenticate is called or the Deferred fires
Respond(c, code, body) ==
    LET call == calls[c]
        page == cb_process_resp(code, body, authenticator)
        ch == RunChain(call.chain, call.docId, call.openId, page, cache, hasCache,
                       nextObj)
    IN  /\ call.pc = "http"
        /\ IF page.kind = "authenticate"
           THEN /\ Len(call.sent) < MaxAttempts
                /\ calls' = [calls EXCEPT ![c] =
                       [call EXCEPT !.pc = "auth", !.nauth = @ + 1,
                                    !.resps = Append(@, <<code, body>>),
                                    !.log = @ \o <<"response", "authenticate">>]]
                /\ UNCHANGED <<cache, nextObj, session>>
           ELSE /\ calls' = [calls EXCEPT ![c] =
                       [call EXCEPT !.pc = "done", !.outcome = ch.outcome,
                                    !.resps = Append(@, <<code, body>>),
                                    !.log = @ \o <<"response", "fired">>]]
                /\ cache' = ch.m
                /\ nextObj' = ch.oid
                /\ session' = getSessionCb(session, call.chain, ch.outcome)
        /\ UNCHANGED <<config, receiver, nops, keepalive, last>>

\* client.request fails: no callback runs, the Deferred fails
TransportFail(c) ==
    /\ calls[c].pc = "http"
    /\ calls' = [calls EXCEPT ![c] =
           [@ EXCEPT !.pc = "done", !.outcome = Outcome("transport", 0, "", NoValue),
                     !.log = @ \o <<"fired">>]]
    /\ UNCHANGED <<config, receiver, session, cache, nops, nextObj, keepalive, last>>

\* a chain without the _startLC callback
AuthDone_noLC(c) ==
    LET call == calls[c]
    IN  /\ call.pc = "auth"
        /\ calls' = [calls EXCEPT ![c] = retry([call EXCEPT !.log = @ \o <<"authenticated">>])]
        /\ UNCHANGED <<config, receiver, session, cache, nops, nextObj, keepalive, last>>

\* authenticate's Deferred fires: _startLC(), then the request is re-issued
AuthDone(c) ==
    LET call == calls[c]
        lc == startLC(LC, username)
    IN  /\ call.pc = "auth"
        /\ KaRoom(1)
        /\ authLC' = lc.authLC
        /\ running' = lc.running
        /\ kaHttp' = lc.kaHttp
        /\ clock' = lc.clock
        /\ kaLast' = lc.kaLast
        /\ calls' = [calls EXCEPT ![c] =
               retry([call EXCEPT !.log = @ \o <<"authenticated", "startLC">>])]
        /\ UNCHANGED <<config, receiver, session, cache, nops, nextObj, kaAuth, last>>

\* a failure of authenticate that is swallowed: the loop is started and the
\* request is issued again
AuthFail_retries(c) ==
    LET call == calls[c]
        lc == startLC(LC, username)
    IN  /\ call.pc = "auth"
        /\ KaRoom(1)
        /\ authLC' = lc.authLC
        /\ running' = lc.running
        /\ kaHttp' = lc.kaHttp
        /\ clock' = lc.clock
        /\ kaLast' = lc.kaLast
        /\ calls' = [calls EXCEPT ![c] =
               retry([call EXCEPT !.log = @ \o <<"authfailed", "startLC">>])]
        /\ UNCHANGED <<config, receiver, session, cache, nops, nextObj, kaAuth, last>>
\* authenticate's Deferred fails: the callbacks are skipped
AuthFail(c) ==
    /\ calls[c].pc = "auth"
    /\ calls' = [calls EXCEPT ![c] =
           [@ EXCEPT !.pc = "done", !.log = @ \o <<"authfailed", "fired">>,
                     !.outcome = Outcome("AuthenticationError", 0, "", NoValue)]]
    /\ UNCHANGED <<config, receiver, session, cache, nops, nextObj, keepalive, last>>

(***************************************************************************)
(* The keepalive loop.  The Deferred of a keepalive GET is dropped by      *)
(* loop(), so only its position is kept.                                   *)
(***************************************************************************)
\* time passes while a LoopingCall is running and its next call is not due;
\* time is counted in steps of half the window
TimeStep == AUTH_WINDOW \div 2

Advance ==
    /\ running > 0
    /\ clock + TimeStep <= AUTH_WINDOW
    /\ clock' = clock + TimeStep
    /\ UNCHANGED <<config, receiver, session, cache, calls, nops, nextObj, authLC, running, kaHttp,
                   kaAuth, kaLast, last>>

\* a loop that returns the Deferred of its GET, so that the LoopingCall waits
\* for it before it calls again
Tick_waits ==
    /\ running > 0
    /\ clock = AUTH_WINDOW
    /\ kaHttp + kaAuth = 0
    /\ KaRoom(1)
    /\ kaHttp' = kaHttp + 1
    /\ clock' = 0
    /\ kaLast' = [kaLast EXCEPT !.req = loop_get(username), !.tick = kaLast.failed]
    /\ UNCHANGED <<config, receiver, session, cache, calls, nops, nextObj, authLC, running, kaAuth, last>>

\* the LoopingCall fires, AUTH_WINDOW seconds after its last call: loop()
\* calls self.get('') and drops its Deferred
Tick ==
    /\ running > 0
    /\ clock = AUTH_WINDOW
    /\ KaRoom(1)
    /\ kaHttp' = kaHttp + 1
    /\ clock' = 0
    /\ kaLast' = [kaLast EXCEPT !.req = loop_get(username), !.tick = kaLast.failed]
    /\ UNCHANGED <<config, receiver, session, cache, calls, nops, nextObj, authLC, running, kaAuth, last>>

\* the response of a keepalive GET arrives: authenticate is called, or the
\* dropped Deferred fires
KaRespond(code, body) ==
    LET page == cb_process_resp(code, body, authenticator)
    IN  /\ kaHttp > 0
        /\ kaHttp' = kaHttp - 1
        /\ IF page.kind = "authenticate"
           THEN kaAuth' = kaAuth + 1 /\ UNCHANGED kaLast
           ELSE /\ UNCHANGED kaAuth
                /\ kaLast' = [kaLast EXCEPT !.failed = (page.kind # "body"), !.tick = FALSE]
        /\ UNCHANGED <<config, receiver, session, cache, calls, nops, nextObj, authLC, running, clock, last>>

KaTransportFail ==
    /\ kaHttp > 0
    /\ kaHttp' = kaHttp - 1
    /\ kaLast' = [kaLast EXCEPT !.failed = TRUE, !.tick = FALSE]
    /\ UNCHANGED <<config, receiver, session, cache, calls, nops, nextObj, authLC, running, kaAuth,
                   clock, last>>

\* _startLC() issues one keepalive GET and the retry is another
KaAuthDone ==
    LET lc == startLC(LC, username)
    IN  /\ kaAuth > 0
        /\ KaRoom(1)
        /\ authLC' = lc.authLC
        /\ running' = lc.running
        /\ kaHttp' = lc.kaHttp + 1
        /\ clock' = lc.clock
        /\ kaLast' = lc.kaLast
        /\ kaAuth' = kaAuth - 1
        /\ UNCHANGED <<config, receiver, session, cache, calls, nops, nextObj, last>>

KaAuthFail ==
    /\ kaAuth > 0
    /\ kaAuth' = kaAuth - 1
    /\ kaLast' = [kaLast EXCEPT !.failed = TRUE, !.tick = FALSE]
    /\ UNCHANGED <<config, receiver, session, cache, calls, nops, nextObj, authLC, running, kaHttp,
                   clock, last>>

(***************************************************************************)
(* ResponseReceiver: the protocol that assembles a response body.          *)
(***************************************************************************)
\* the bytes of a body: an ASCII byte, the lead byte of a two-byte UTF-8
\* sequence and a continuation byte
Bytes == {"0x61", "0xc3", "0xa9"}
\* the characters the decoder produces
U_a == "a"
U_e_acute == "U+00E9"

\* the chunks the transport may deliver
Chunks == UNION {[1..n -> Bytes] : n \in 1..MaxChunk}

\* the reasons a connection is lost with
Reasons == {"ResponseDone", "PotentialDataLoss", "ResponseFailed"}

\* utf_8.IncrementalDecoder.decode on the buffered bytes followed by the
\* input: the characters decoded, the incomplete sequence kept back, or the
\* error raised
RECURSIVE utf_8_decode(_, _)
utf_8_decode(data, final) ==
    LET failure == [out |-> <<>>, rest |-> <<>>, raised |-> "UnicodeDecodeError"]
    IN  IF data = <<>> THEN [out |-> <<>>, rest |-> <<>>, raised |-> None]
        ELSE IF Head(data) = "0x61"
        THEN LET r == utf_8_decode(Tail(data), final)
             IN  IF r.raised # None THEN failure
                 ELSE [r EXCEPT !.out = <<U_a>> \o @]
        ELSE IF Head(data) = "0xa9" THEN failure
        ELSE IF Len(data) = 1
        THEN IF final THEN failure
             ELSE [out |-> <<>>, rest |-> data, raised |-> None]
        ELSE IF data[2] = "0xa9"
        THEN LET r == utf_8_decode(SubSeq(data, 3, Len(data)), final)
             IN  IF r.raised # None THEN failure
                 ELSE [r EXCEPT !.out = <<U_e_acute>> \o @]
        ELSE failure

\* ''.join(chunks)
RECURSIVE join(_)
join(chunks) ==
    IF chunks = <<>> THEN <<>> ELSE Head(chunks) \o join(Tail(chunks))

\* ResponseReceiver.__init__
ResponseReceiver_init(decode_utf8) ==
    [NoReceiver EXCEPT !.made = TRUE, !.decode_utf8 = decode_utf8]

\* ResponseReceiver.dataReceived: the receiver afterwards; raised names the
\* exception that left the method, if any
dataReceived(r, bytes, final) ==
    IF r.decode_utf8
    THEN LET dec == utf_8_decode(r.buffer \o bytes, final)
         IN  IF dec.raised # None
             THEN [r EXCEPT !.raised = dec.raised]
             ELSE [r EXCEPT !.buffer = dec.rest,
                            !.recv_chunks = Append(@, dec.out),
                            !.raised = None]
    ELSE [r EXCEPT !.recv_chunks = Append(@, bytes), !.raised = None]

\* ResponseReceiver.connectionLost
connectionLost(r, reason) ==
    IF reason \in {"ResponseDone", "PotentialDataLoss"}
    THEN LET fin == dataReceived(r, <<>>, TRUE)
         IN  IF fin.raised # None
             THEN [fin EXCEPT !.lost = reason]
             ELSE [fin EXCEPT !.lost = reason,
                              !.deferred = "callback",
                              !.result = join(fin.recv_chunks),
                              !.fired = @ + 1]
    ELSE [r EXCEPT !.lost = reason,
                   !.deferred = "errback",
                   !.result = <<reason>>,
                   !.fired = @ + 1,
                   !.raised = None]

\* cb_recv_resp hands a new receiver to response.deliverBody
NewReceiver(decode_utf8) ==
    /\ ~receiver.made
    /\ receiver' = ResponseReceiver_init(decode_utf8)
    /\ UNCHANGED <<config, session, cache, calls, nops, nextObj, keepalive, last>>

\* the transport delivers a chunk of the body
DataReceived(bytes) ==
    /\ receiver.made
    /\ receiver.lost = None
    /\ Len(receiver.received) + Len(bytes) <= MaxBytes
    /\ receiver' = [dataReceived(receiver, bytes, FALSE)
                       EXCEPT !.received = @ \o bytes]
    /\ UNCHANGED <<config, session, cache, calls, nops, nextObj, keepalive, last>>

\* the transport reports the end of the body, once
ConnectionLost(reason) ==
    /\ receiver.made
    /\ receiver.lost = None
    /\ receiver' = connectionLost(receiver, reason)
    /\ UNCHANGED <<config, session, cache, calls, nops, nextObj, keepalive, last>>

(***************************************************************************)
(* Specifications.                                                         *)
(***************************************************************************)
\* the request engine and the keepalive loop: requests made through _getPage
\* by a client without a cache
Init == Constructed(BOOLEAN, {None, "u"}, {FALSE}, {TRUE}, {None})

Next ==
    \/ \E c \in CallIds, sh \in ReqShapes : Request(c, sh)
    \/ \E c \in CallIds, r \in Responses : Respond(c, r[1], r[2])
    \/ \E c \in CallIds : TransportFail(c)
    \/ \E c \in CallIds : AuthDone(c)
    \/ \E c \in CallIds : AuthFail(c)
    \/ Advance
    \/ Tick
    \/ \E r \in Responses : KaRespond(r[1], r[2])
    \/ KaTransportFail
    \/ KaAuthDone
    \/ KaAuthFail

Spec == Init /\ [][Next]_vars

\* openDoc and map, with and without a cache and an authenticator
InitDoc == Constructed(BOOLEAN, {None}, BOOLEAN, {TRUE}, {None})

DocResponses ==
    {<<200, B_DOC1>>, <<200, B_DOC2>>, <<201, B_HTML>>, <<401, B_EMPTY>>,
     <<404, B_NOTFOUND>>}

NextDoc ==
    \/ \E c \in CallIds, docId \in DocIds, revision \in Revisions, full \in BOOLEAN,
          attachment \in Attachments : OpenDoc(c, docId, revision, full, attachment)
    \/ \E c \in CallIds, docId \in DocIds : Map(c, docId)
    \/ \E c \in CallIds, r \in DocResponses : Respond(c, r[1], r[2])
    \/ \E c \in CallIds : TransportFail(c)
    \/ \E c \in CallIds : AuthDone(c)
    \/ \E c \in CallIds : AuthFail(c)

SpecDoc == InitDoc /\ [][NextDoc]_vars

\* the classification of responses: one request at a time, answered with any
\* status code and any body
InitResp == Constructed(BOOLEAN, {None}, {FALSE}, {TRUE}, {None})

NextResp ==
    \/ \E sh \in ReqShapes : Request(1, sh)
    \/ \E code \in Codes, body \in Bodies : Respond(1, code, body)
    \/ TransportFail(1)
    \/ AuthDone(1)
    \/ AuthFail(1)

SpecResp == InitResp /\ [][NextResp]_vars

\* the headers of requests: one request at a time, made with and without
\* headers of the caller, by a client with and without a username, and the
\* keepalive loop
InitHdr == Constructed(BOOLEAN, {None, "", "u"}, {FALSE}, {TRUE}, {None})

CallerHeaders == ("Content-Type" :> "text/plain" @@ "X-Custom" :> "1")
CallerAuthHeaders == ("Authorization" :> "Bearer t" @@ "User-Agent" :> "me" @@ "X-Custom" :> "2")

HdrShapes ==
    ReqShapes \cup
    {Shape("PUT", "/db/b%2Fc", "{}", CallerHeaders, TRUE),
     Shape("GET", "/db/b%2Fc/att", None, CallerAuthHeaders, FALSE)}

NextHdr ==
    \/ \E sh \in HdrShapes : Request(1, sh)
    \/ \E r \in Responses : Respond(1, r[1], r[2])
    \/ TransportFail(1)
    \/ AuthDone(1)
    \/ AuthFail(1)
    \/ Advance
    \/ Tick
    \/ \E r \in Responses : KaRespond(r[1], r[2])
    \/ KaTransportFail
    \/ KaAuthDone
    \/ KaAuthFail

SpecHdr == InitHdr /\ [][NextHdr]_vars

\* getSession and getSessionRoles among other requests, one call at a time
InitSession == Constructed(BOOLEAN, {None, "u"}, {FALSE}, {TRUE}, {None})

SessionResponses ==
    {<<200, B_SESS1>>, <<200, B_SESS2>>, <<200, B_DOC1>>, <<200, B_HTML>>,
     <<401, B_EMPTY>>, <<500, B_EMPTY>>}

NextSession ==
    \/ GetSession(1)
    \/ GetSessionRoles
    \/ \E sh \in ReqShapes : Request(1, sh)
    \/ \E r \in SessionResponses : Respond(1, r[1], r[2])
    \/ TransportFail(1)
    \/ AuthDone(1)
    \/ AuthFail(1)

SpecSession == InitSession /\ [][NextSession]_vars

\* map calls that may be in flight together, by clients with and without a
\* cache, bound and not bound to a database
InitMap == Constructed({FALSE}, {None}, BOOLEAN, {TRUE}, {None, DbName})

MapResponses == {<<200, B_DOC1>>, <<200, B_DOC2>>, <<404, B_NOTFOUND>>}

NextMap ==
    \/ \E c \in Slots, docId \in DocIds : Map(c, docId)
    \/ \E c \in Slots, r \in MapResponses : Respond(c, r[1], r[2])
    \/ \E c \in Slots : TransportFail(c)

SpecMap == InitMap /\ [][NextMap]_vars

\* listDoc, one call at a time
InitList == Constructed(BOOLEAN, {None}, {FALSE}, {TRUE}, {None})

Limits == {-1, 0, 2}
Kwargs == {NoKw, "count" :> 0, "count" :> 2, "foo" :> 1, "count" :> 2 @@ "foo" :> 1}
ListResponses == {<<200, B_LIST>>, <<200, B_HTML>>, <<401, B_EMPTY>>, <<404, B_NOTFOUND>>}

NextList ==
    \/ \E reverse \in BOOLEAN, startkey \in {None, "k"}, limit \in Limits,
          obsolete \in Kwargs : ListDoc(1, reverse, startkey, limit, obsolete)
    \/ \E r \in ListResponses : Respond(1, r[1], r[2])
    \/ TransportFail(1)
    \/ AuthDone(1)
    \/ AuthFail(1)

SpecList == InitList /\ [][NextList]_vars

(***************************************************************************)
(* MemoryCache on its own: the operations applied in any order.            *)
(***************************************************************************)
Objects == {Hydrate(1, json_loads(B_DOC1)), Hydrate(2, json_loads(B_DOC2))}
Documents == {json_loads(B_DOC1), json_loads(B_DOC2)}

Applied(op, key, value, r) ==
    /\ nops < MaxCacheOps
    /\ nops' = nops + 1
    /\ cache' = r.m
    /\ last' = [op |-> op, key |-> key, value |-> value, raised |-> r.raised, ret |-> r.ret]
    /\ UNCHANGED <<config, receiver, session, calls, nextObj, keepalive>>

Store(key, value) == Applied("store", key, value, MemoryCache_store(cache, key, value))

Mapped(key, obj) == Applied("mapped", key, obj, MemoryCache_mapped(cache, key, obj))

Get(key) == Applied("get", key, NoValue, MemoryCache_get(cache, key))

GetObject(key) == Applied("getObject", key, NoValue, MemoryCache_getObject(cache, key))

Delete(key) == Applied("delete", key, NoValue, MemoryCache_delete(cache, key))

InitCache == Constructed({FALSE}, {None}, {TRUE}, BOOLEAN, {None})

NextCache ==
    \/ \E key \in AnyKeys, value \in Documents : Store(key, value)
    \/ \E key \in AnyKeys, obj \in Objects : Mapped(key, obj)
    \/ \E key \in AnyKeys : Get(key)
    \/ \E key \in AnyKeys : GetObject(key)
    \/ \E key \in AnyKeys : Delete(key)

SpecCache == InitCache /\ [][NextCache]_vars

\* one ResponseReceiver given a body in chunks
InitRecv == Constructed({FALSE}, {None}, {FALSE}, {TRUE}, {None})

NextRecv ==
    \/ \E decode_utf8 \in BOOLEAN : NewReceiver(decode_utf8)
    \/ \E bytes \in Chunks : DataReceived(bytes)
    \/ \E reason \in Reasons : ConnectionLost(reason)

SpecRecv == InitRecv /\ [][NextRecv]_vars

\* plain openDoc calls in one slot, saveDoc and deleteDoc calls in another
InitSave == Constructed({FALSE}, {None}, BOOLEAN, {TRUE}, {None})

SaveResponses == {<<200, B_DOC1>>, <<201, B_SAVED>>, <<409, B_NOTFOUND>>}

NextSave ==
    \/ \E docId \in DocIds : OpenDocWithin(1, docId, None, FALSE, "", MaxSaveOps)
    \/ \E body \in SaveBodies, docId \in DocIds \cup {None} : SaveDoc(2, body, docId)
    \/ \E docId \in DocIds : DeleteDoc(2, docId, "1")
    \/ \E c \in 1..2, r \in SaveResponses : Respond(c, r[1], r[2])
    \/ \E c \in 1..2 : TransportFail(c)

SpecSave == InitSave /\ [][NextSave]_vars

(***************************************************************************)
(* Properties of the request engine (Spec).                                *)
(***************************************************************************)
\* an authentication failure as the documentation words it: 401, or 404 with
\* a JSON body whose error is "unauthorized"
AuthFailureResp(r) == r[1] = 401 \/ (r[1] = 404 /\ r[2] \in {B_UNAUTH, B_UNAUTH2})

Started == {c \in CallIds : calls[c].pc # "idle"}

\* C1: with an Authenticator, a request whose first response is 401 calls
\* authenticate once and is re-issued once with the same method, url, body
\* and headers (and the same isJson); when the re-issued request gets an
\* answer that is not an authentication failure, the call is done with the
\* outcome of that answer.
C1_RetryOnce ==
    \A c \in Started :
        LET call == calls[c]
            n == Len(call.resps)
        IN  (authenticator /\ n >= 1 /\ call.resps[1][1] = 401) =>
              /\ call.nauth >= 1
              /\ (n = 1 => /\ call.nauth = 1
                           /\ Len(call.sent) <= 2
                           /\ (call.pc = "http" => Len(call.sent) = 2))
              /\ (Len(call.sent) >= 2 =>
                    /\ call.sent[2] = call.sent[1]
                    /\ call.isJson = (call.sent[1].headers["User-Agent"] = "paisley"
                                      /\ "Accept" \in DOMAIN call.sent[1].headers
                                      /\ call.sent[1].headers["Accept"] = "application/json"))
              /\ (n = 2 /\ ~AuthFailureResp(call.resps[2]) =>
                    /\ call.pc = "done"
                    /\ call.nauth = 1
                    /\ Len(call.sent) = 2
                    /\ call.outcome.code = call.resps[2][1]
                    /\ call.outcome.body = call.resps[2][2]
                    /\ (call.outcome.kind = "ok") = (call.resps[2][1] < 300))

C1_Witness ==
    \E c \in Started :
        /\ authenticator
        /\ calls[c].resps = << <<401, B_EMPTY>>, <<200, B_DOC1>> >>
        /\ calls[c].pc = "done"
        /\ calls[c].outcome.kind = "ok"
        /\ calls[c].outcome.body = B_DOC1
        /\ Len(calls[c].sent) = 2
        /\ calls[c].sent[1].method = "POST"

\* C2 as claimed: one invocation issues at most two HTTP requests and calls
\* authenticate at most once, whatever the server answers.
C2_AtMostOneRetry ==
    \A c \in Started : Len(calls[c].sent) <= 2 /\ calls[c].nauth <= 1

AuthFailures(call) ==
    Cardinality({i \in 1..Len(call.resps) : AuthFailureResp(call.resps[i])})

\* C2 as amended: authenticate is called once per authentication failure
\* received (never without an Authenticator), every completed authentication
\* is followed by one re-issue, and nothing else issues a request; so at most
\* two requests are issued when at most one authentication failure is received.
C2_RetryPerFailure ==
    \A c \in Started :
        LET call == calls[c]
        IN  /\ call.nauth = (IF authenticator THEN AuthFailures(call) ELSE 0)
            /\ Len(call.sent) =
                 (IF call.pc = "auth" \/ call.outcome.kind = "AuthenticationError"
                  THEN call.nauth ELSE call.nauth + 1)
            /\ (AuthFailures(call) <= 1 => Len(call.sent) <= 2 /\ call.nauth <= 1)

C2_Witness ==
    \E c \in Started :
        /\ calls[c].pc = "done"
        /\ Len(calls[c].sent) = 3
        /\ calls[c].nauth = 2
        /\ calls[c].outcome.kind = "ok"

\* C5: after authenticate is called, the call's Deferred stays pending until
\* authenticate has completed, _startLC has then started the loop, the
\* request has then been re-issued and that request has ended; it fires
\* earlier only with the failure of authenticate.
C5_AuthThenLoopThenRetry ==
    \A c \in Started :
        LET call == calls[c]
            log == call.log
            n == Len(log)
        IN  /\ (call.outcome.kind # "pending") = (call.pc = "done")
            /\ (call.pc = "done") = (log[n] = "fired")
            /\ \A i \in 1..n :
                 /\ log[i] = "fired" => i = n
                 /\ log[i] = "authenticate" =>
                      \/ i = n /\ call.pc = "auth"
                      \/ /\ n >= i + 2
                         /\ log[i + 1] = "authfailed"
                         /\ log[i + 2] = "fired"
                         /\ call.outcome.kind = "AuthenticationError"
                      \/ /\ n >= i + 3
                         /\ log[i + 1] = "authenticated"
                         /\ log[i + 2] = "startLC"
                         /\ log[i + 3] = "request"
                         /\ authLC # None
                         /\ running >= 1
                         /\ (n = i + 3 => call.pc = "http")
                         /\ (n > i + 3 => log[i + 4] \in {"response", "fired"})

C5_Witness ==
    \E c \in Started :
        /\ calls[c].log = <<"request", "response", "authenticate", "authenticated",
                            "startLC", "request", "response", "fired">>
        /\ calls[c].outcome.kind = "ok"
        /\ running = 1

(***************************************************************************)
(* Properties of the classification of responses (SpecResp).               *)
(***************************************************************************)
\* C3: what the last response does to the call depends on its code, its body
\* and the presence of an Authenticator only: 200-299 fires the Deferred with
\* the body; 300-399 fails it with PageRedirect(code, body); 401 and
\* 404-unauthorized with an Authenticator start the authenticate-and-retry
\* path; any other code above 399 fails it with Error(code, body); and the
\* Deferred never fires successfully on a code of 300 or more.
C3_Classification ==
    \A c \in Started :
        LET call == calls[c]
            n == Len(call.resps)
            code == call.resps[n][1]
            body == call.resps[n][2]
        IN  n >= 1 =>
              /\ code \in 200..299 =>
                    call.pc = "done" /\ call.outcome = Outcome("ok", code, body, NoValue)
              /\ code \in 300..399 =>
                    call.pc = "done" /\ call.outcome = Outcome("PageRedirect", code, body, NoValue)
              /\ (code > 399 /\ authenticator /\ AuthFailureResp(call.resps[n])) =>
                    /\ call.nauth = n
                    /\ call.outcome.kind \in {"pending", "AuthenticationError", "transport"}
              /\ (code > 399 /\ ~(authenticator /\ AuthFailureResp(call.resps[n]))) =>
                    call.pc = "done" /\ call.outcome = Outcome("Error", code, body, NoValue)
              /\ call.outcome.kind = "ok" => code < 300

C3_Witness ==
    \E c \in Started :
        /\ ~authenticator
        /\ calls[c].resps = << <<404, B_UNAUTH2>> >>
        /\ calls[c].outcome = Outcome("Error", 404, B_UNAUTH2, NoValue)

\* C4: authenticate is called and the request re-issued only with an
\* Authenticator and a 401 or 404-unauthorized response; after any other
\* response with a code above 299, and after a transport failure, authenticate
\* was not called, one request was issued and the call failed.
C4_AuthOnlyOnFailure ==
    \A c \in Started :
        LET call == calls[c]
            n == Len(call.resps)
        IN  /\ (call.nauth > 0 \/ Len(call.sent) > 1) =>
                  authenticator /\ AuthFailureResp(call.resps[1])
            /\ \A i \in 1..(n - 1) : authenticator /\ AuthFailureResp(call.resps[i])
            /\ (/\ call.pc = "done"
                /\ n = 1
                /\ call.resps[1][1] > 299
                /\ ~(authenticator /\ AuthFailureResp(call.resps[1]))) =>
                  /\ call.nauth = 0
                  /\ Len(call.sent) = 1
                  /\ call.outcome.kind \in {"PageRedirect", "Error"}
            /\ (call.pc = "done" /\ n = 0) =>
                  /\ call.nauth = 0
                  /\ Len(call.sent) = 1
                  /\ call.outcome.kind = "transport"

C4_Witness ==
    \E c \in Started :
        /\ authenticator
        /\ calls[c].pc = "done"
        /\ calls[c].resps = << <<404, B_NOTFOUND>> >>
        /\ calls[c].nauth = 0
        /\ calls[c].outcome.kind = "Error"

(***************************************************************************)
(* Properties of openDoc and map (SpecDoc).                                *)
(***************************************************************************)
\* call c is started by this step
StartedNow(c) == nops' = nops + 1 /\ calls'[c] # calls[c]

\* call c is ended by this step
EndedNow(c) == calls[c].pc \in {"http", "auth"} /\ calls'[c].pc = "done"

PlainOpen(call) ==
    call.op = "openDoc" /\ call.revision = None /\ ~call.full /\ call.attachment = ""

DocUrl(docId) == "http://host:5984/db/" \o (IF docId = "b/c" THEN "b%2Fc" ELSE docId)

C7_AttachmentFirst ==
    \A c \in Started :
        LET call == calls[c]
        IN  call.op = "openDoc" =>
              /\ call.attachment # "" =>
                    /\ ~call.hit
                    /\ call.chain = "none"
                    /\ Len(call.sent) >= 1
                    /\ call.sent[1].url = DocUrl(call.docId) \o "/" \o call.attachment
                    /\ "Accept" \notin DOMAIN call.sent[1].headers
              /\ (call.attachment = "" /\ call.revision # None /\ Len(call.sent) >= 1) =>
                    call.sent[1].url = DocUrl(call.docId) \o "?rev=" \o call.revision
              /\ (call.attachment = "" /\ call.revision = None /\ call.full
                    /\ Len(call.sent) >= 1) =>
                    call.sent[1].url = DocUrl(call.docId) \o "?full=true"

\* C8 as claimed: an openDoc with a revision or with full is never answered
\* from the cache and leaves the document cache as it is when it ends.
C8_PlainOnlyCache ==
    [][\A c \in CallIds :
          LET call == calls'[c]
          IN  (call.op = "openDoc" /\ (call.revision # None \/ call.full)) =>
                /\ ~call.hit
                /\ EndedNow(c) => cache'.docCache = cache.docCache
    ]_vars

\* C9: a miss of the cache never ends a call: no call fails with the KeyError
\* of get / getObject or the AttributeError of a missing cache; a plain
\* openDoc of a docId that is not cached issues its GET, and a map whose
\* object is not cached (or that has no cache) goes on to openDoc, which
\* issues its GET unless the document is cached.
C9_MissFallsThrough ==
    [][\A c \in CallIds :
          LET call == calls'[c]
              d == call.docId
          IN  /\ call.outcome.kind \notin {"KeyError", "AttributeError"}
              /\ (StartedNow(c) /\ PlainOpen(call)
                    /\ (~hasCache \/ d \notin DOMAIN cache.docCache)) =>
                    call.pc = "http" /\ Len(call.sent) = 1
              /\ (StartedNow(c) /\ call.op = "map"
                    /\ (~hasCache \/ d \notin DOMAIN cache.objCache)) =>
                    IF hasCache /\ d \in DOMAIN cache.docCache
                    THEN /\ call.pc = "done"
                         /\ call.outcome.kind = "ok"
                         /\ call.outcome.value.d = cache.docCache[d].d
                         /\ cache'.objCache[d] = call.outcome.value
                    ELSE /\ call.pc = "http"
                         /\ Len(call.sent) = 1
                         /\ call.sent[1].url = DocUrl(d)
    ]_vars

C9_Witness ==
    \E c \in Started :
        /\ ~hasCache
        /\ calls[c].op = "map"
        /\ calls[c].pc = "done"
        /\ calls[c].outcome.kind = "ok"
        /\ calls[c].outcome.value.t = "object"
        /\ Len(calls[c].sent) = 1

(***************************************************************************)
(* Properties of MemoryCache (SpecCache).                                  *)
(***************************************************************************)
\* C10: after store(d, v) the document cache holds v under d; an entry of the
\* document cache is changed only by a store or a delete of its own key, so
\* not by operations on other keys nor by mapped, get and getObject; and
\* get(d) returns the entry of d.
C10_StoreThenGet ==
    [][\A d \in AnyKeys :
          /\ (last'.op = "store" /\ last'.key = d /\ last'.raised = None) =>
                /\ d \in DOMAIN cache'.docCache
                /\ cache'.docCache[d] = last'.value
                /\ MemoryCache_get(cache', d).raised = None
                /\ MemoryCache_get(cache', d).ret = last'.value
          /\ (d \in DOMAIN cache.docCache
                /\ ~(last'.op \in {"store", "delete"} /\ last'.key = d)) =>
                /\ d \in DOMAIN cache'.docCache
                /\ cache'.docCache[d] = cache.docCache[d]
          /\ (last'.op = "get" /\ last'.key = d /\ d \in DOMAIN cache.docCache) =>
                /\ last'.raised = None
                /\ last'.ret = cache.docCache[d]
    ]_vars

C10_Witness ==
    /\ last.op = "get"
    /\ last.raised = None
    /\ last.ret = json_loads(B_DOC2)
    /\ last.key \in DOMAIN cache.objCache
    /\ cache.docCache[last.key] = json_loads(B_DOC2)
    /\ cache.cached = 3

\* a key is present when it is in the document cache or the object cache
Present(m, key) == key \in DOMAIN m.docCache \/ key \in DOMAIN m.objCache

\* C11 as claimed: delete(d) reports "nothing removed" (False) when d is in
\* neither cache and "removed" (True) when d is in one of them; after a delete
\* of a present key, d is in neither cache and get(d) and getObject(d) both
\* fail with KeyError.
C11_DeleteReports ==
    [][\A d \in AnyKeys :
          (last'.op = "delete" /\ last'.key = d) =>
              /\ last'.ret.t = (IF Present(cache, d) THEN "True" ELSE "False")
              /\ Present(cache, d) =>
                    /\ ~Present(cache', d)
                    /\ MemoryCache_get(cache', d).raised = "KeyError"
                    /\ MemoryCache_getObject(cache', d).raised = "KeyError"
    ]_vars

\* C12: mapped(k, obj) on a key that is already in the object cache leaves the
\* whole cache, its counters included, as it is; an entry of the object cache
\* is changed only by a delete of its own key; so after mapped(k, obj1) and
\* any operations but delete(k), getObject(k) returns obj1.
C12_FirstMappedWins ==
    [][\A k \in AnyKeys :
          /\ (last'.op = "mapped" /\ last'.key = k /\ k \in DOMAIN cache.objCache) =>
                /\ last'.raised = None
                /\ cache' = cache
          /\ (last'.op = "mapped" /\ last'.key = k /\ last'.raised = None
                /\ k \notin DOMAIN cache.objCache) =>
                /\ cache'.objCache[k] = last'.value
                /\ cache'.cached = cache.cached + 1
          /\ (k \in DOMAIN cache.objCache /\ ~(last'.op = "delete" /\ last'.key = k)) =>
                /\ k \in DOMAIN cache'.objCache
                /\ cache'.objCache[k] = cache.objCache[k]
          /\ (last'.op = "getObject" /\ last'.key = k /\ k \in DOMAIN cache.objCache) =>
                /\ last'.raised = None
                /\ last'.ret = cache.objCache[k]
    ]_vars

\* a second mapped of another object under a key that holds the first one
C12_Witness ==
    /\ last.op = "mapped"
    /\ last.raised = None
    /\ last.key \in DOMAIN cache.objCache
    /\ cache.objCache[last.key] # last.value
    /\ cache.cached = 1
    /\ nops = 2

\* C13 as claimed: in a MemoryCache constructed with objects=False, mapped is
\* a no-op: it leaves the object cache and the counters as they are, and
\* getObject of its key still fails with KeyError.
C13_ObjectsDisabled ==
    [][(~objectsArg /\ last'.op = "mapped") =>
          /\ cache'.objCache = cache.objCache
          /\ cache'.lookups = cache.lookups
          /\ cache'.hits = cache.hits
          /\ cache'.cached = cache.cached
          /\ MemoryCache_getObject(cache', last'.key).raised = "KeyError"
    ]_vars

CacheKeys(m) == DOMAIN m.docCache \cup DOMAIN m.objCache

\* C14 as claimed: store and mapped with a key that is not a str, or with the
\* empty str, fail and leave the cache and its counters as they are, so that
\* no key of the cache is empty or not a str.
C14_NonEmptyStrKeys ==
    [][/\ (last'.op \in {"store", "mapped"} /\ last'.key \in {NotStr, ""}) =>
             last'.raised # None /\ cache' = cache
       /\ CacheKeys(cache') \cap {NotStr, ""} = {}
    ]_vars

\* C14 as amended: store and mapped with a key that is not a str fail with
\* AssertionError and leave the cache and its counters as they are, so that
\* every key of the cache is a str; the empty str is a key like any other:
\* store and mapped accept it and the cache then holds it.
C14_StrKeys ==
    [][/\ (last'.op \in {"store", "mapped"} /\ last'.key = NotStr) =>
             last'.raised = "AssertionError" /\ cache' = cache
       /\ \A k \in CacheKeys(cache') : type_is_str(k)
       /\ (last'.op \in {"store", "mapped"} /\ last'.key = "") =>
             /\ last'.raised = None
             /\ "" \in CacheKeys(cache')
             /\ last'.op = "store" => cache'.docCache[""] = last'.value
    ]_vars

\* a store under a key that is not a str has failed on a cache that holds
\* the empty str as a key
C14_Witness ==
    /\ last.op = "store"
    /\ last.key = NotStr
    /\ last.raised = "AssertionError"
    /\ "" \in DOMAIN cache.docCache
    /\ cache.cached = 1

(***************************************************************************)
(* Properties of the keepalive loop (Spec).                                *)
(***************************************************************************)
\* C15: at most one LoopingCall is running, and one is running exactly when
\* self._authLC is set, however the authentications of requests and of
\* keepalive GETs interleave: every _startLC stops the LoopingCall that is
\* running before it starts the new one.
C15_OneLoop ==
    /\ running <= 1
    /\ (running = 1) = (authLC # None)
    /\ (running = 0) => kaLast.req = NoReq

\* a request and a keepalive GET both wait for authenticate after an
\* authentication failure, while the loop an earlier _startLC of the same
\* request has started is running
C15_Witness ==
    /\ running = 1
    /\ kaAuth = 1
    /\ \E c \in Started :
          /\ calls[c].pc = "auth"
          /\ calls[c].nauth = 2
          /\ \E i \in 1..Len(calls[c].log) : calls[c].log[i] = "startLC"

\* this step is a call of loop() by the timer of the running LoopingCall
TickNow == kaHttp' = kaHttp + 1 /\ kaAuth' = kaAuth /\ calls' = calls

\* C16 as claimed: the timer of the running loop calls loop() 150 seconds
\* after the previous call of loop().
C16_Interval150 == [][TickNow => clock = 150]_vars

\* C16 as amended: the timer of the running loop calls loop() 300 seconds
\* after the previous call of loop(), never earlier and never later, and
\* issues one keepalive GET then.
C16_Interval300 ==
    [][/\ TickNow => (clock = 300 /\ clock' = 0 /\ running = 1 /\ kaLast'.req.url = url_template(""))
       /\ clock \in 0..300
       /\ (clock' # clock /\ clock' # 0) => (clock' > clock /\ kaHttp' = kaHttp)
    ]_vars

\* the timer has fired, and half a window has passed since
C16_Witness ==
    /\ running = 1
    /\ kaLast.tick
    /\ clock = 150
    /\ kaHttp = 1

\* C17: nothing stops the timer once it is started: not the end of a
\* keepalive GET, whether it succeeds, fails with an HTTP error, fails in
\* transport or fails in authenticate; and when the timer is due it fires
\* whether or not earlier keepalive GETs are still unanswered.
C17_FireAndForget ==
    [][/\ running' >= running
       /\ (authLC # None) => (authLC' # None)
       /\ (kaHttp' < kaHttp \/ kaAuth' < kaAuth) => (running' = running /\ clock' \in {0, clock})
       /\ (running > 0 /\ clock = AUTH_WINDOW /\ KaRoom(1)) => ENABLED Tick
    ]_vars

\* the timer has fired after a keepalive GET failed, while another keepalive
\* GET was still unanswered
C17_Witness ==
    /\ running = 1
    /\ kaLast.failed
    /\ kaLast.tick
    /\ kaHttp = 2
    /\ clock = 0

(***************************************************************************)
(* Properties of listDoc (SpecList).                                       *)
(***************************************************************************)
\* the request a listDoc with these arguments issues
ListRequest(reverse, startkey, limit, obsolete) ==
    http_request(listDoc(DbName, reverse, startkey, None, FALSE, limit, obsolete).uri,
                 "GET", None, NoHeaders, TRUE, username, Password)

HasUser == username # None /\ username # ""

\* every request issued: those of the calls, re-issues included, with the
\* headers their caller gave, and the last keepalive GET
Issued ==
    UNION {{[req |-> calls[c].sent[i], given |-> calls[c].given,
             isJson |-> calls[c].isJson] : i \in 1..Len(calls[c].sent)} : c \in Started}
    \cup (IF kaLast.req # NoReq
          THEN {[req |-> kaLast.req, given |-> NoHeaders, isJson |-> TRUE]}
          ELSE {})

\* what the engine sets in every request
EngineHeaders(h, isJson) ==
    /\ "User-Agent" \in DOMAIN h /\ h["User-Agent"] = "paisley"
    /\ HasUser => ("Authorization" \in DOMAIN h /\ h["Authorization"] = "Basic dTpw")
    /\ isJson => /\ "Accept" \in DOMAIN h /\ h["Accept"] = "application/json"
                 /\ "Content-Type" \in DOMAIN h /\ h["Content-Type"] = "application/json"

\* C19 as claimed: every request carries User-Agent: paisley, a Basic
\* Authorization header exactly when a username is configured, Accept and
\* Content-Type application/json when isJson is true, and every header of the
\* caller with the caller's value.
C19_HeadersKept ==
    \A r \in Issued :
        LET h == r.req.headers
        IN  /\ EngineHeaders(h, r.isJson)
            /\ HasUser = ("Authorization" \in DOMAIN h /\ h["Authorization"] = "Basic dTpw")
            /\ \A k \in DOMAIN r.given : k \in DOMAIN h /\ h[k] = r.given[k]

\* the names of the headers the engine sets, whatever the caller gave
Overwritten(isJson) ==
    {"User-Agent"} \cup (IF isJson THEN {"Accept", "Content-Type"} ELSE {})
                   \cup (IF HasUser THEN {"Authorization"} ELSE {})

\* C19 as amended: every request carries User-Agent: paisley, carries the
\* Basic Authorization header of the credentials exactly when a non-empty
\* username is configured, and carries Accept and Content-Type
\* application/json when isJson is true; these replace headers of the same
\* name given by the caller; every other header of the caller is carried
\* with the caller's value, and nothing else is added.
C19_HeadersSet ==
    \A r \in Issued :
        LET h == r.req.headers
        IN  /\ EngineHeaders(h, r.isJson)
            /\ HasUser = ("Authorization" \in DOMAIN h /\ h["Authorization"] = "Basic dTpw")
            /\ DOMAIN h = DOMAIN r.given \cup Overwritten(r.isJson)
            /\ \A k \in DOMAIN r.given \ Overwritten(r.isJson) : h[k] = r.given[k]

\* a JSON request made with headers of the caller has been re-issued after an
\* authentication by a client with a username, and the loop has issued a
\* keepalive GET
C19_Witness ==
    /\ username = "u"
    /\ kaLast.req # NoReq
    /\ kaLast.req.headers["Authorization"] = "Basic dTpw"
    /\ calls[1].given = CallerHeaders
    /\ Len(calls[1].sent) = 2
    /\ calls[1].sent[2].headers["Content-Type"] = "application/json"
    /\ calls[1].sent[2].headers["X-Custom"] = "1"
    /\ calls[1].pc = "done"

(***************************************************************************)
(* Properties of the session (SpecSession).                                *)
(***************************************************************************)
\* C20: the session is {} until a getSession has ended in success; a step
\* changes it only by ending a getSession in success, and every getSession
\* that ends in success leaves it equal to the parsed body of its last
\* response; a getSession that ends in an HTTP error, a transport failure, a
\* failed authentication or a body that does not parse leaves it as it is;
\* getSessionRoles returns the empty list while the session is empty and the
\* roles of the session otherwise (KeyError when the stored result has none).
C20_Session ==
    [][/\ (nops = 0 => session = NoSession)
       /\ \A c \in CallIds :
             LET call == calls'[c]
             IN  (EndedNow(c) /\ call.op = "getSession") =>
                   IF call.outcome.kind = "ok"
                   THEN /\ session' = json_loads(call.resps[Len(call.resps)][2])
                        /\ session' = call.outcome.value
                   ELSE session' = session
       /\ session' # session =>
             \E c \in CallIds : /\ EndedNow(c)
                                /\ calls'[c].op = "getSession"
                                /\ calls'[c].outcome.kind = "ok"
       /\ (last' # last /\ last'.op = "getSessionRoles") =>
             /\ session' = session
             /\ IF session.d = NoFields
                THEN last'.raised = None /\ last'.ret.d = <<>>
                ELSE IF "roles" \in DOMAIN session.d
                THEN last'.raised = None /\ last'.ret.d = session.d["roles"]
                ELSE last'.raised = "KeyError"
    ]_vars

\* a second getSession has failed after the first one succeeded, the session
\* is still the result of the first, and getSessionRoles has returned its
\* roles
C20_Witness ==
    /\ nops = 2
    /\ calls[1].op = "getSession"
    /\ calls[1].outcome.kind = "Error"
    /\ session = json_loads(B_SESS1)
    /\ last.op = "getSessionRoles"
    /\ last.ret.d = <<"r">>

(***************************************************************************)
(* Properties of map (SpecMap).                                            *)
(***************************************************************************)
\* C21 as claimed: a map of a docId the object cache holds is done at once
\* with the cached object, opens no document and constructs no object; any
\* other map opens the document docId of the database dbName (by a GET of its
\* url, or from the document cache), and when it ends in success it has
\* constructed one object, hydrated it from that document and stored it in
\* the object cache under docId; whether or not the client is bound to a
\* database.
C21_MapOpensDoc ==
    [][\A c \in Slots :
          LET call == calls'[c]
              d == call.docId
              cachedObj == hasCache /\ d \in DOMAIN cache.objCache
          IN  call.op = "map" =>
                /\ (StartedNow(c) /\ cachedObj) =>
                      /\ call.pc = "done"
                      /\ call.outcome.kind = "ok"
                      /\ call.outcome.value = cache.objCache[d]
                      /\ call.sent = <<>>
                      /\ nextObj' = nextObj
                /\ (StartedNow(c) /\ ~cachedObj) =>
                      IF hasCache /\ d \in DOMAIN cache.docCache
                      THEN /\ call.pc = "done"
                           /\ call.sent = <<>>
                           /\ call.outcome.value.d = cache.docCache[d].d
                      ELSE /\ call.pc = "http"
                           /\ call.sent[1].method = "GET"
                           /\ call.sent[1].url = DocUrl(d)
                /\ ((StartedNow(c) \/ EndedNow(c)) /\ ~call.hit
                      /\ call.outcome.kind = "ok") =>
                      /\ call.outcome.value.t = "object"
                      /\ call.outcome.value.oid = nextObj
                      /\ nextObj' = nextObj + 1
                      /\ EndedNow(c) =>
                            call.outcome.value.d = json_loads(call.resps[Len(call.resps)][2]).d
                      /\ hasCache => (d \in DOMAIN cache'.objCache
                                      /\ cache'.objCache[d] = call.outcome.value)
    ]_vars

\* C23 as claimed: when a map ends in success on a client with a cache, the
\* object it ends with is the object getObject(docId) returns then, however
\* the map calls of that docId that started on a miss interleave.
C23_MapReturnsCached ==
    [][\A c \in Slots :
          LET call == calls'[c]
          IN  (hasCache /\ EndedNow(c) /\ call.op = "map" /\ call.outcome.kind = "ok") =>
                /\ MemoryCache_getObject(cache', call.docId).raised = None
                /\ MemoryCache_getObject(cache', call.docId).ret = call.outcome.value
    ]_vars

(***************************************************************************)
(* Properties of ResponseReceiver (SpecRecv).                              *)
(***************************************************************************)
\* C22: the receiver settles its Deferred exactly once and only when the
\* stream ends: while chunks arrive the Deferred is pending; after
\* ResponseDone or PotentialDataLoss it has fired once with the concatenation
\* of the chunks received (decoded, the final pass included, when decode_utf8
\* is set); after any other reason it has failed once with that reason.
C22_SettledAtEnd ==
    receiver.made =>
        /\ receiver.lost = None =>
              receiver.deferred = "pending" /\ receiver.fired = 0
        /\ receiver.lost # None => receiver.fired = 1
        /\ receiver.lost \in {"ResponseDone", "PotentialDataLoss"} =>
              /\ receiver.deferred = "callback"
              /\ receiver.result =
                    IF receiver.decode_utf8
                    THEN utf_8_decode(receiver.received, TRUE).out
                    ELSE receiver.received
        /\ receiver.lost \notin {None, "ResponseDone", "PotentialDataLoss"} =>
              /\ receiver.deferred = "errback"
              /\ receiver.result = <<receiver.lost>>

(***************************************************************************)
(* Properties of a failed authentication (Spec).                           *)
(***************************************************************************)
\* the step in which the Deferred of authenticate fails for call c
AuthFailedNow(c) ==
    /\ calls[c].pc = "auth"
    /\ Len(calls'[c].log) > Len(calls[c].log)
    /\ calls'[c].log[Len(calls[c].log) + 1] = "authfailed"

\* C24: when authenticate fails after an authentication failure, the
\* keepalive loop is neither started nor restarted, the request is not
\* issued again, and the caller's Deferred fails with the authenticator's
\* error, not with an HTTP error and not with a result.
C24_AuthFailStops ==
    [][\A c \in Slots :
          AuthFailedNow(c) =>
             /\ UNCHANGED <<authLC, running, kaHttp, clock>>
             /\ calls'[c].sent = calls[c].sent
             /\ calls'[c].nauth = calls[c].nauth
             /\ calls'[c].pc = "done"
             /\ calls'[c].outcome.kind = "AuthenticationError"
    ]_vars

\* a call that ended with the authenticator's error after one request,
\* while no keepalive loop runs
C24_Witness ==
    \E c \in Slots :
        /\ calls[c].pc = "done"
        /\ calls[c].outcome.kind = "AuthenticationError"
        /\ Len(calls[c].sent) = 1
        /\ running = 0

(***************************************************************************)
(* Properties of a failed openDoc (SpecDoc).                               *)
(***************************************************************************)
\* C25: an openDoc that ends in a failure (a redirect, an HTTP error, a
\* transport failure, a failed authentication or a body that is not JSON)
\* leaves the cache as it was: no entry is added and no counter changes; a
\* plain openDoc of the same docId that follows it, the document not being
\* cached, sends a request again.
C25_FailedOpenKeepsCache ==
    [][\A c \in Slots :
          /\ (EndedNow(c) /\ calls'[c].op = "openDoc"
                /\ calls'[c].outcome.kind # "ok") =>
                cache' = cache
          /\ (StartedNow(c) /\ calls[c].pc = "done" /\ calls[c].op = "openDoc"
                /\ calls[c].outcome.kind # "ok"
                /\ PlainOpen(calls'[c]) /\ calls'[c].docId = calls[c].docId
                /\ calls[c].docId \notin DOMAIN cache.docCache) =>
                /\ calls'[c].pc = "http"
                /\ ~calls'[c].hit
                /\ Len(calls'[c].sent) = 1
                /\ calls'[c].sent[1].url = DocUrl(calls'[c].docId)
    ]_vars

\* a plain openDoc whose body was not JSON, followed by a plain openDoc of
\* the same document that was sent to the server, with nothing cached
C25_Witness ==
    \E c \in Slots :
        /\ hasCache
        /\ nops = 2
        /\ PlainOpen(calls[c])
        /\ calls[c].pc = "http"
        /\ Len(calls[c].sent) = 1
        /\ cache.cached = 0
        /\ cache.lookups = 2
        /\ cache.docCache = <<>>

(***************************************************************************)
(* Properties of saveDoc and deleteDoc (SpecSave).                         *)
(***************************************************************************)
SaveOps == {"saveDoc", "deleteDoc"}

\* C26: saveDoc and deleteDoc never touch the cache: no step of such a call,
\* its start or its end, changes the cache; and once a saveDoc or deleteDoc
\* of a cached docId has succeeded, a plain openDoc of that docId ends at
\* once with the value cached before, without a request.
C26_SaveKeepsCache ==
    [][/\ \A c \in Slots :
             (calls'[c] # calls[c] /\ calls'[c].op \in SaveOps) => cache' = cache
       /\ \A c, s \in Slots :
             LET d == calls'[c].docId
             IN  (/\ StartedNow(c) /\ PlainOpen(calls'[c])
                  /\ calls[s].op \in SaveOps /\ calls[s].docId = d
                  /\ calls[s].pc = "done" /\ calls[s].outcome.kind = "ok"
                  /\ hasCache /\ d \in DOMAIN cache.docCache) =>
                    /\ calls'[c].pc = "done"
                    /\ calls'[c].hit
                    /\ calls'[c].sent = <<>>
                    /\ calls'[c].outcome.kind = "ok"
                    /\ calls'[c].outcome.value = cache.docCache[d]
                    /\ cache'.docCache = cache.docCache
    ]_vars

\* the document was cached at revision 1, a saveDoc of revision 2 has
\* succeeded, and a later plain openDoc was answered from the cache with
\* revision 1
C26_Witness ==
    /\ hasCache
    /\ nops = 3
    /\ calls[2].op = "saveDoc" /\ calls[2].docId = "b/c"
    /\ calls[2].pc = "done" /\ calls[2].outcome.kind = "ok"
    /\ calls[2].sent[1].body = B_DOC2
    /\ PlainOpen(calls[1]) /\ calls[1].pc = "done" /\ calls[1].hit
    /\ calls[1].outcome.value = json_loads(B_DOC1)
    /\ cache.docCache["b/c"] = json_loads(B_DOC1)
    /\ cache.cached = 1

(***************************************************************************)
(* Properties of the counters of MemoryCache (SpecCache).                  *)
(***************************************************************************)
\* C27: whatever store, mapped, get, getObject and delete calls were made,
\* cached is not negative and not smaller than the number of entries of the
\* two dicts together, and hits is not greater than lookups.
C27_Counters ==
    /\ cache.cached >= 0
    /\ cache.cached >= Cardinality(DOMAIN cache.docCache)
                         + Cardinality(DOMAIN cache.objCache)
    /\ cache.hits <= cache.lookups

\* two entries were counted, a delete emptied the cache and counted down
\* once, so cached exceeds the number of entries; a lookup has missed
C27_Witness ==
    /\ CacheKeys(cache) = {}
    /\ cache.cached = 1
    /\ cache.hits < cache.lookups
    /\ last.op = "get"
====
